---- MODULE Spec2Model ----
(***************************************************************************)
(* SESAMME: the forward-model and posterior-evaluation engine              *)
(* (sesamme/models.py, sesamme/mcmc.py).                                   *)
(*                                                                         *)
(* Numbers.  Python floats are modelled by exact integers in fixed point:  *)
(*   - theta = <<logt, logZ, ebv, ampl>> and the prior bounds are in       *)
(*     hundredths (7.5 is 750, 0.01 is 1);                                 *)
(*   - ages of the grid are in hundredths (6.5 is 650);                    *)
(*   - linear metallicities are in units of 10^-MetDigits (0.014 is 1400). *)
(* Strings the code parses (extension names, column names) are sequences   *)
(* of one-character strings, so that parsing is computed, not assumed.     *)
(* Spectra are not numbers here: a spectrum is the sequence of array       *)
(* operations that produced it (see get_model).                            *)
(***************************************************************************)
EXTENDS Integers, Sequences, FiniteSets, TLC

VARIABLES
    use_ext_law,    \* models.use_ext_law: the active extinction curve name
    ext_out,        \* what the most recent set_ext_law call did (raised / printed)
    metal_dict,     \* models.metal_dict: <<label, value>> pairs, insertion order
    age_dict,       \* models.age_dict:   <<label, value>> pairs, insertion order
    load_out,       \* outcome of the most recent load_ssp_cube call
    model_cube,     \* the cube load_ssp_cube last returned (argument of the evaluator)
    ion_table,      \* the ionization table (argument of the evaluator)
    prior_dict,     \* mcmc.prior_dict: axis -> None or <<lo, hi>>
    bounds_out,     \* outcome of the most recent set_prior_bounds call
    x,              \* observation wavelength array
    mask,           \* mask array handed to the evaluator
    windows,        \* the window list handed to get_mask
    mask_out,       \* outcome of the most recent get_mask call
    pc,             \* per evaluator call: position inside log_posterior
    theta,          \* per evaluator call: the theta argument
    add_nebular,    \* per evaluator call: the add_nebular argument
    y_model,        \* per evaluator call: local y_model of log_posterior
    snap,           \* per evaluator call: get_model's met_key, met, age_key, age
    lp,             \* per evaluator call: local lp of log_posterior
    ret,            \* per evaluator call: what log_posterior returned or raised
    gm_calls,       \* per evaluator call: get_model invocations made by the call
    prior_ret,      \* the most recent direct log_prior call: argument, bounds, result
    apply_ret,      \* the most recent direct apply_ext_law call: argument, result
    selected,       \* history: the name the most recent successful set_ext_law set
    neb_ret,        \* the most recent direct nebular_continuum call
    like_ret,       \* the direct log_likelihood calls made: arguments, result
    nwalkers,       \* mcmc.nwalkers: the ensemble size
    initial_pos,    \* mcmc.initial_pos: its shape and the centers it was drawn around
    run_out         \* what the most recent run_sesamme call handed to the sampler

vars == <<use_ext_law, ext_out, metal_dict, age_dict, load_out, model_cube,
          ion_table, prior_dict, bounds_out, x, mask, windows, mask_out, pc,
          theta, add_nebular, y_model, snap, lp, ret, gm_calls, prior_ret,
          apply_ret, selected, neb_ret, like_ret, nwalkers, initial_pos,
          run_out>>

\* the fit context the evaluator reads
context == <<use_ext_law, metal_dict, age_dict, model_cube, ion_table,
             prior_dict, x, mask>>

config_out == <<ext_out, load_out, bounds_out, mask_out, windows, selected>>

evaluator == <<pc, theta, add_nebular, y_model, snap, lp, ret, gm_calls>>

direct == <<prior_ret, apply_ret, neb_ret, like_ret>>

\* the walker ensemble of mcmc.py and the hand-over to the sampler
ensemble == <<nwalkers, initial_pos, run_out>>

(***************************************************************************)
(* Fixed-point scales and strings                                          *)
(***************************************************************************)
\* theta, bounds and ages are in hundredths
Cent == 10 * 10

\* linear metallicity is in units of 10^-MetDigits (precision of the model)
MetDigits == 5

RECURSIVE Pow10(_)
Pow10(n) == IF n <= 0 THEN 1 ELSE 10 * Pow10(n - 1)

Abs(n) == IF n < 0 THEN -n ELSE n

Digits == <<"0", "1", "2", "3", "4", "5", "6", "7", "8", "9">>

IsDigit(c) == \E i \in 1..10 : Digits[i] = c

DigitVal(c) == (CHOOSE i \in 1..10 : Digits[i] = c) - 1

AllDigits(s) == \A i \in 1..Len(s) : IsDigit(s[i])

\* int(s) for a string of decimal digits
RECURSIVE DigitsToInt(_)
DigitsToInt(s) ==
    IF s = <<>> THEN 0
    ELSE 10 * DigitsToInt(SubSeq(s, 1, Len(s) - 1)) + DigitVal(s[Len(s)])

\* the start positions of the occurrences of the two-character string <<a, b>>
\* (a # b, so occurrences cannot overlap and str.split cuts at each of them)
Occurrences(s, a, b) == {i \in 1..(Len(s) - 1) : s[i] = a /\ s[i + 1] = b}

Positions(s, c) == {i \in 1..Len(s) : s[i] = c}

Failure == [ok |-> FALSE, val |-> 0]

\* float("1e-" + power), in units of 10^-MetDigits: Python accepts the text
\* exactly when power is a string of digits (over the letters modelled here)
FloatExpForm(power) ==
    IF power # <<>> /\ AllDigits(power) /\ DigitsToInt(power) <= MetDigits
    THEN [ok |-> TRUE, val |-> Pow10(MetDigits - DigitsToInt(power))]
    ELSE Failure

\* float("." + value), in units of 10^-MetDigits: digits, optionally followed
\* by e and an exponent ('.5e3' is a float literal too)
FloatFracForm(value) ==
    LET es == Positions(value, "e") IN
    IF es = {}
    THEN IF value # <<>> /\ AllDigits(value) /\ Len(value) <= MetDigits
         THEN [ok |-> TRUE,
               val |-> DigitsToInt(value) * Pow10(MetDigits - Len(value))]
         ELSE Failure
    ELSE IF Cardinality(es) = 1
    THEN LET p == CHOOSE i \in es : TRUE
             mant == SubSeq(value, 1, p - 1)
             expo == SubSeq(value, p + 1, Len(value))
         IN  IF /\ mant # <<>> /\ AllDigits(mant)
                /\ expo # <<>> /\ AllDigits(expo)
                /\ Len(mant) <= MetDigits + DigitsToInt(expo)
                /\ DigitsToInt(expo) <= MetDigits
             THEN [ok |-> TRUE,
                   val |-> DigitsToInt(mant)
                           * Pow10(MetDigits + DigitsToInt(expo) - Len(mant))]
             ELSE Failure
    ELSE Failure

\* one pass of the loop body of _interpret_metallicity_keys
InterpretMetallicityKey(key) ==
    LET ems == Occurrences(key, "e", "m")
        zs  == Positions(key, "Z")
    IN  IF ems # {}
        THEN IF Cardinality(ems) = 1
             THEN LET p == CHOOSE i \in ems : TRUE
                  IN  FloatExpForm(SubSeq(key, p + 2, Len(key)))
             ELSE Failure
        ELSE IF Cardinality(zs) = 1
             THEN LET p == CHOOSE i \in zs : TRUE
                  IN  FloatFracForm(SubSeq(key, p + 1, Len(key)))
             ELSE Failure

\* float(a) for a column name, in hundredths: digits '.' and at most two digits
ParseAge(a) ==
    LET dots == Positions(a, ".") IN
    IF Cardinality(dots) = 1
    THEN LET p == CHOOSE i \in dots : TRUE
             whole == SubSeq(a, 1, p - 1)
             frac  == SubSeq(a, p + 1, Len(a))
         IN  IF /\ AllDigits(whole) /\ AllDigits(frac)
                /\ Len(whole) + Len(frac) > 0 /\ Len(frac) <= 2
             THEN [ok |-> TRUE,
                   val |-> DigitsToInt(whole) * Cent
                           + DigitsToInt(frac) * Pow10(2 - Len(frac))]
             ELSE Failure
    ELSE IF a # <<>> /\ AllDigits(a)
    THEN [ok |-> TRUE, val |-> DigitsToInt(a) * Cent]
    ELSE Failure

(***************************************************************************)
(* Python dict, as a sequence of <<key, value>> pairs in insertion order   *)
(***************************************************************************)
DictHas(d, k) == \E i \in 1..Len(d) : d[i][1] = k

\* d[k] = v : a new key goes last, an existing key keeps its position
DictSet(d, k, v) ==
    IF DictHas(d, k)
    THEN [i \in 1..Len(d) |-> IF d[i][1] = k THEN <<k, v>> ELSE d[i]]
    ELSE Append(d, <<k, v>>)

(***************************************************************************)
(* GridIndex: ingestion and nearest-grid-point lookup (models.py)          *)
(***************************************************************************)
\* the loop over example_table.names[1:] : age_dict[a] = float(a); a name
\* that is no float raises ValueError and leaves the entries made so far
RECURSIVE IngestAges(_, _, _)
IngestAges(names, i, d) ==
    IF i > Len(names) THEN [ok |-> TRUE, d |-> d]
    ELSE LET v == ParseAge(names[i]) IN
         IF v.ok THEN IngestAges(names, i + 1, DictSet(d, names[i], v.val))
         ELSE [ok |-> FALSE, d |-> d]

\* _interpret_metallicity_keys: the list of values, or a ValueError
InterpretMetallicityKeys(extnames) ==
    IF \A k \in 1..Len(extnames) : InterpretMetallicityKey(extnames[k]).ok
    THEN [ok |-> TRUE,
          vals |-> [k \in 1..Len(extnames) |->
                        InterpretMetallicityKey(extnames[k]).val]]
    ELSE [ok |-> FALSE, vals |-> <<>>]

\* dict(zip(keys, vals))
RECURSIVE DictZip(_, _, _, _)
DictZip(keys, vals, i, d) ==
    IF i > Len(keys) THEN d
    ELSE DictZip(keys, vals, i + 1, DictSet(d, keys[i], vals[i]))

\* _ingest_model_grid(cube): the two globals it leaves behind and how it ended.
\* Both globals are emptied first; an exception leaves whatever was built.
IngestModelGrid(cube) ==
    IF Len(cube.extnames) = 0
    THEN [metal_dict |-> <<>>, age_dict |-> <<>>, raised |-> "IndexError"]
    ELSE LET ages == IngestAges(Tail(cube.colnames), 1, <<>>)
             mets == InterpretMetallicityKeys(cube.extnames)
         IN  IF ~ages.ok
             THEN [metal_dict |-> <<>>, age_dict |-> ages.d,
                   raised |-> "ValueError"]
             ELSE IF ~mets.ok
             THEN [metal_dict |-> <<>>, age_dict |-> ages.d,
                   raised |-> "ValueError"]
             ELSE [metal_dict |-> DictZip(cube.extnames, mets.vals, 1, <<>>),
                   age_dict |-> ages.d, raised |-> "none"]

\* a scan that keeps the last of several nearest entries (<= for <)
RECURSIVE MinScanLast(_, _, _, _)
MinScanLast(d, target, i, best) ==
    IF i > Len(d) THEN best
    ELSE MinScanLast(d, target, i + 1,
                     IF Abs(target - d[i][2]) <= Abs(target - d[best][2])
                     THEN i ELSE best)

\* min(d.items(), key = lambda e: abs(target - e[1])): the scan keeps the
\* first entry whose distance is smallest (d is not empty)
RECURSIVE MinScan(_, _, _, _)
MinScan(d, target, i, best) ==
    IF i > Len(d) THEN best
    ELSE MinScan(d, target, i + 1,
                 IF Abs(target - d[i][2]) < Abs(target - d[best][2])
                 THEN i ELSE best)

\* _nearest_age(logt): <<key, value>>; min() of an empty dict raises ValueError
NearestAge(logt, ages) ==
    IF ages = <<>> THEN [raised |-> "ValueError", key |-> <<>>, val |-> 0]
    ELSE LET b == MinScan(ages, logt, 1, 1)
         IN  [raised |-> "none", key |-> ages[b][1], val |-> ages[b][2]]

\* Z = 10**logZ, in units of 10^-MetDigits (logZ a whole number of dex here,
\* in hundredths, and not below -MetDigits)
LinearZ(logZ) == Pow10(MetDigits + logZ \div Cent)

\* _nearest_metallicity(logZ)
NearestMetallicity(logZ, metals) ==
    IF metals = <<>> THEN [raised |-> "ValueError", key |-> <<>>, val |-> 0]
    ELSE LET b == MinScan(metals, LinearZ(logZ), 1, 1)
         IN  [raised |-> "none", key |-> metals[b][1], val |-> metals[b][2]]

(***************************************************************************)
(* Masker (models.py get_mask)                                             *)
(***************************************************************************)
\* (np.abs(arr - t)).argmin(): the first index of the smallest distance
RECURSIVE ArgMinScan(_, _, _, _)
ArgMinScan(arr, t, i, best) ==
    IF i > Len(arr) THEN best
    ELSE ArgMinScan(arr, t, i + 1,
                    IF Abs(arr[i] - t) < Abs(arr[best] - t) THEN i ELSE best)

ArgMin(arr, t) == ArgMinScan(arr, t, 1, 1)

\* a pass that compares the bins with the requested edges, not the resolved
\* ones
MaskWindowLiteral(mask_array, arr, w) ==
    [i \in 1..Len(arr) |->
        IF arr[i] >= w[1] /\ arr[i] <= w[2] THEN FALSE ELSE mask_array[i]]

\* one pass of the loop of get_mask: the bins between the two resolved
\* wavelengths (inclusive) are cleared
MaskWindow(mask_array, arr, w) ==
    LET windowmin == arr[ArgMin(arr, w[1])]
        windowmax == arr[ArgMin(arr, w[2])]
    IN  [i \in 1..Len(arr) |->
            IF arr[i] >= windowmin /\ arr[i] <= windowmax
            THEN FALSE ELSE mask_array[i]]

\* a loop that makes the array of ones afresh on every pass, so that only the
\* last window is left in the mask
MaskLoopLastWins(mask_array, arr, windowlist, k) ==
    IF k > Len(windowlist) THEN mask_array
    ELSE MaskWindow([i \in 1..Len(arr) |-> TRUE], arr,
                    windowlist[Len(windowlist)])

RECURSIVE MaskLoop(_, _, _, _)
MaskLoop(mask_array, arr, windowlist, k) ==
    IF k > Len(windowlist) THEN mask_array
    ELSE MaskLoop(MaskWindow(mask_array, arr, windowlist[k]), arr,
                  windowlist, k + 1)

\* get_mask(windowlist, x); argmin of an empty array raises ValueError
GetMask(windowlist, arr) ==
    IF Len(arr) = 0 /\ Len(windowlist) > 0
    THEN [raised |-> "ValueError", mask |-> <<>>]
    ELSE [raised |-> "none",
          mask |-> MaskLoop([i \in 1..Len(arr) |-> TRUE], arr, windowlist, 1)]

(***************************************************************************)
(* Spectra.  A spectrum is [len, ops]: its length and the array operations *)
(* that built it, in the order they were applied.                          *)
(***************************************************************************)
NoKey == <<>>

Op(name) == [op |-> name, met |-> NoKey, age |-> NoKey, ampl |-> 0, q |-> 0,
             ebv |-> 0, law |-> "", rv |-> ""]

NoSpectrum == [len |-> 0, ops |-> <<>>]

\* numpy broadcasting of two 1-d shapes: the common length, or -1 (ValueError)
Broadcast(n, m) ==
    IF n = m THEN n ELSE IF n = 1 THEN m ELSE IF m = 1 THEN n ELSE -1

(***************************************************************************)
(* ExtinctionEngine (models.py set_ext_law, apply_ext_law)                 *)
(***************************************************************************)
ExtLaws == {"CCM", "Fitzpatrick99", "ODonnell", "FitzMassa07", "Gordon23",
            "Calzetti", "SMC", "LMC"}

\* a ladder whose LMC and SMC branches are exchanged
ExtBranchSwapped(law) ==
    CASE law = "CCM"           -> [law |-> "extinction.ccm89", rv |-> "3.1"]
      [] law = "Fitzpatrick99" -> [law |-> "extinction.fitzpatrick99", rv |-> "3.1"]
      [] law = "ODonnell"      -> [law |-> "extinction.odonnell94", rv |-> "3.1"]
      [] law = "FitzMassa07"   -> [law |-> "extinction.fm07", rv |-> "3.1"]
      [] law = "Calzetti"      -> [law |-> "extinction.calzetti00", rv |-> "4.05"]
      [] law = "Gordon23"      -> [law |-> "dust_extinction.G23", rv |-> "ext_curve.Rv"]
      [] law = "LMC"           -> [law |-> "dust_extinction.G03_SMCBar", rv |-> "ext_curve.Rv"]
      [] law = "SMC"           -> [law |-> "dust_extinction.G03_LMCAvg", rv |-> "ext_curve.Rv"]

\* the elif ladder of apply_ext_law: the library curve and the factor that
\* turns E(B-V) into A(V) on each branch
ExtBranch(law) ==
    CASE law = "CCM"           -> [law |-> "extinction.ccm89", rv |-> "3.1"]
      [] law = "Fitzpatrick99" -> [law |-> "extinction.fitzpatrick99", rv |-> "3.1"]
      [] law = "ODonnell"      -> [law |-> "extinction.odonnell94", rv |-> "3.1"]
      [] law = "FitzMassa07"   -> [law |-> "extinction.fm07", rv |-> "3.1"]
      [] law = "Calzetti"      -> [law |-> "extinction.calzetti00", rv |-> "4.05"]
      [] law = "Gordon23"      -> [law |-> "dust_extinction.G23", rv |-> "ext_curve.Rv"]
      [] law = "LMC"           -> [law |-> "dust_extinction.G03_LMCAvg", rv |-> "ext_curve.Rv"]
      [] law = "SMC"           -> [law |-> "dust_extinction.G03_SMCBar", rv |-> "ext_curve.Rv"]

\* apply_ext_law(x, ebv, y_model) under the active selection `active`
ApplyExtLaw(active, arr, ebv, spectrum) ==
    IF active \notin ExtLaws
    THEN [raised |-> "ValueError", spectrum |-> NoSpectrum]
    ELSE IF Broadcast(Len(arr), spectrum.len) < 0
    THEN [raised |-> "ValueError", spectrum |-> NoSpectrum]
    ELSE [raised |-> "none",
          spectrum |->
            [len |-> Broadcast(Len(arr), spectrum.len),
             ops |-> Append(spectrum.ops,
                            [Op("ext") EXCEPT !.law = ExtBranch(active).law,
                                              !.rv = ExtBranch(active).rv,
                                              !.ebv = ebv])]]

(***************************************************************************)
(* NebularContinuumModel (models.py nebular_continuum)                     *)
(***************************************************************************)
\* reference exponent of the ionizing photon rate, in dex
Qbase == 52

\* ion_table[ion_table['Z'] == met_key]: the rows whose Z is met_key
MatchingRows(table, met_key) ==
    {i \in 1..Len(table.rows) : table.rows[i].Z = met_key}

\* nebular_continuum(x, theta, ion_table): re-snaps theta, reads Q for the
\* snapped pair and rescales the interpolated continuum
NebularContinuum(arr, th, table, metals, ages) ==
    LET m == NearestMetallicity(th[2], metals)
        a == NearestAge(th[1], ages)
        rows == MatchingRows(table, m.key)
        n == Broadcast(Len(arr), Cardinality(rows))
    IN  IF m.raised # "none" THEN [raised |-> m.raised, spectrum |-> NoSpectrum]
        ELSE IF a.raised # "none" THEN [raised |-> a.raised, spectrum |-> NoSpectrum]
        ELSE IF a.key \notin table.colnames
        THEN [raised |-> "KeyError", spectrum |-> NoSpectrum]
        ELSE IF n < 0
        THEN [raised |-> "ValueError", spectrum |-> NoSpectrum]
        ELSE [raised |-> "none",
              spectrum |->
                [len |-> n,
                 ops |-> << [Op("neb") EXCEPT
                               !.met = m.key, !.age = a.key, !.ampl = th[4],
                               !.q = IF rows = {} THEN 0
                                     ELSE table.rows[CHOOSE i \in rows : TRUE].Q[a.key]
                                          - Qbase * Cent] >>]]

(***************************************************************************)
(* Forward model (models.py get_model)                                     *)
(***************************************************************************)
\* model_cube[met_key].data[age_key]: KeyError for an extension or a column
\* the cube does not have
CubeHas(cube, met_key, age_key) ==
    /\ \E k \in 1..Len(cube.extnames) : cube.extnames[k] = met_key
    /\ \E k \in 2..Len(cube.colnames) : cube.colnames[k] = age_key

\* nearest_stellar_model + nebcont
AddSpectra(s, t) ==
    [len |-> Broadcast(s.len, t.len), ops |-> s.ops \o t.ops \o <<Op("add")>>]

\* a get_model that reddens the stellar spectrum before the nebular continuum
\* is added
GetModelExtFirst(th, arr, cube, table, neb, metals, ages, active) ==
    LET m == NearestMetallicity(th[2], metals)
        a == NearestAge(th[1], ages)
        stellar == [len |-> Len(arr),
                    ops |-> << [Op("ssp") EXCEPT !.met = m.key, !.age = a.key],
                               [Op("scale") EXCEPT !.ampl = th[4]] >>]
        nebcont == NebularContinuum(arr, th, table, metals, ages)
        red == ApplyExtLaw(active, arr, th[3], stellar)
    IN  IF m.raised # "none" THEN [raised |-> m.raised, spectrum |-> NoSpectrum]
        ELSE IF a.raised # "none" THEN [raised |-> a.raised, spectrum |-> NoSpectrum]
        ELSE IF ~CubeHas(cube, m.key, a.key)
        THEN [raised |-> "KeyError", spectrum |-> NoSpectrum]
        ELSE IF neb
        THEN IF nebcont.raised # "none"
             THEN [raised |-> nebcont.raised, spectrum |-> NoSpectrum]
             ELSE IF red.raised # "none" THEN red
             ELSE IF Broadcast(Len(arr), nebcont.spectrum.len) < 0
             THEN [raised |-> "ValueError", spectrum |-> NoSpectrum]
             ELSE [raised |-> "none",
                   spectrum |-> AddSpectra(red.spectrum, nebcont.spectrum)]
        ELSE red

\* get_model(theta, x, model_cube, ion_table, add_nebular); the grid bins are
\* taken to be those of x
GetModel(th, arr, cube, table, neb, metals, ages, active) ==
    LET m == NearestMetallicity(th[2], metals)
        a == NearestAge(th[1], ages)
        stellar == [len |-> Len(arr),
                    ops |-> << [Op("ssp") EXCEPT !.met = m.key, !.age = a.key],
                               [Op("scale") EXCEPT !.ampl = th[4]] >>]
        nebcont == NebularContinuum(arr, th, table, metals, ages)
    IN  IF m.raised # "none" THEN [raised |-> m.raised, spectrum |-> NoSpectrum]
        ELSE IF a.raised # "none" THEN [raised |-> a.raised, spectrum |-> NoSpectrum]
        ELSE IF ~CubeHas(cube, m.key, a.key)
        THEN [raised |-> "KeyError", spectrum |-> NoSpectrum]
        ELSE IF neb
        THEN IF nebcont.raised # "none"
             THEN [raised |-> nebcont.raised, spectrum |-> NoSpectrum]
             ELSE IF Broadcast(Len(arr), nebcont.spectrum.len) < 0
             THEN [raised |-> "ValueError", spectrum |-> NoSpectrum]
             ELSE ApplyExtLaw(active, arr, th[3],
                              AddSpectra(stellar, nebcont.spectrum))
        ELSE ApplyExtLaw(active, arr, th[3], stellar)

NoSnap == [met_key |-> NoKey, met |-> 0, age_key |-> NoKey, age |-> 0]

\* the locals met_key, met, age_key, age of get_model, as far as it got
GetModelLocals(th, metals, ages) ==
    LET m == NearestMetallicity(th[2], metals)
        a == NearestAge(th[1], ages)
    IN  IF m.raised # "none" THEN NoSnap
        ELSE IF a.raised # "none"
        THEN [NoSnap EXCEPT !.met_key = m.key, !.met = m.val]
        ELSE [met_key |-> m.key, met |-> m.val, age_key |-> a.key, age |-> a.val]

(***************************************************************************)
(* PosteriorEvaluator (mcmc.py)                                            *)
(***************************************************************************)
\* the keys of prior_dict, in the order dict.fromkeys made them
AxisOrder == <<"age", "met", "ebv", "amp">>

Axes == {AxisOrder[i] : i \in 1..Len(AxisOrder)}

\* the value dict.fromkeys gives every key: None
None == <<>>

\* _check_prior_bounds(prior_dict): the loop raises at the first key, in dict
\* order, whose pair is out of order; None[0] raises TypeError.  The warnings
\* of the second loop change nothing and are left out.
RECURSIVE CheckLoop(_, _)
CheckLoop(bounds, i) ==
    IF i > Len(AxisOrder) THEN "none"
    ELSE LET value == bounds[AxisOrder[i]] IN
         IF value = None THEN "TypeError"
         ELSE IF value[1] > value[2] THEN "ValueError"
         ELSE CheckLoop(bounds, i + 1)

CheckPriorBounds(bounds) == CheckLoop(bounds, 1)

\* a log_prior whose four intervals are all closed
LogPriorClosed(th, bounds) ==
    IF CheckPriorBounds(bounds) # "none" THEN CheckPriorBounds(bounds)
    ELSE IF /\ bounds["age"][1] <= th[1] /\ th[1] <= bounds["age"][2]
            /\ bounds["met"][1] <= th[2] /\ th[2] <= bounds["met"][2]
            /\ bounds["ebv"][1] <= th[3] /\ th[3] <= bounds["ebv"][2]
            /\ bounds["amp"][1] <= th[4] /\ th[4] <= bounds["amp"][2]
    THEN "0.0"
    ELSE "-inf"

\* a log_prior that trusts set_prior_bounds to have validated the bounds
LogPriorUnchecked(th, bounds) ==
    IF \E k \in Axes : bounds[k] = None THEN "TypeError"
    ELSE IF /\ bounds["age"][1] <= th[1] /\ th[1] <= bounds["age"][2]
            /\ bounds["met"][1] <= th[2] /\ th[2] <= bounds["met"][2]
            /\ bounds["ebv"][1] < th[3] /\ th[3] < bounds["ebv"][2]
            /\ bounds["amp"][1] < th[4] /\ th[4] < bounds["amp"][2]
    THEN "0.0"
    ELSE "-inf"

\* log_prior(theta) against the stored bounds
LogPrior(th, bounds) ==
    IF CheckPriorBounds(bounds) # "none" THEN CheckPriorBounds(bounds)
    ELSE IF /\ bounds["age"][1] <= th[1] /\ th[1] <= bounds["age"][2]
            /\ bounds["met"][1] <= th[2] /\ th[2] <= bounds["met"][2]
            /\ bounds["ebv"][1] < th[3] /\ th[3] < bounds["ebv"][2]
            /\ bounds["amp"][1] < th[4] /\ th[4] < bounds["amp"][2]
    THEN "0.0"
    ELSE "-inf"

\* the four assignments of set_prior_bounds
AssignBounds(lows, highs) ==
    [k \in Axes |->
        LET i == CHOOSE j \in 1..Len(AxisOrder) : AxisOrder[j] = k
        IN  <<lows[i], highs[i]>>]

\* log_likelihood(y, yerr, y_model, mask): y_model[mask] raises IndexError
\* when the model and the mask differ in length
LogLikelihood(spectrum, msk) ==
    IF spectrum.len # Len(msk) THEN "IndexError" ELSE "float"

(***************************************************************************)
(* log_likelihood as a number.  Fluxes and errors are whole numbers here,  *)
(* so the sum of squared standardized residuals is an exact fraction       *)
(* <<numerator, denominator>> in lowest terms; the value returned is       *)
(* -0.5 * (chi2 + log(2 * pi * errsq)), kept as its two exact terms.       *)
(***************************************************************************)
RECURSIVE Gcd(_, _)
Gcd(a, b) == IF b = 0 THEN a ELSE Gcd(b, a % b)

FracAdd(p, q) ==
    LET n == p[1] * q[2] + q[1] * p[2]
        d == p[2] * q[2]
    IN  <<n \div Gcd(n, d), d \div Gcd(n, d)>>

\* np.dot(masked_spec, masked_spec), every selected yerr being nonzero
RECURSIVE DotSpec(_, _, _, _, _)
DotSpec(y, yerr, ym, msk, i) ==
    IF i > Len(msk) THEN <<0, 1>>
    ELSE IF msk[i]
    THEN FracAdd(<<(y[i] - ym[i]) * (y[i] - ym[i]), yerr[i] * yerr[i]>>,
                 DotSpec(y, yerr, ym, msk, i + 1))
    ELSE DotSpec(y, yerr, ym, msk, i + 1)

\* np.dot(masked_err, masked_err) / (2 * pi)
RECURSIVE DotErr(_, _, _)
DotErr(yerr, msk, i) ==
    IF i > Len(msk) THEN 0
    ELSE (IF msk[i] THEN yerr[i] * yerr[i] ELSE 0) + DotErr(yerr, msk, i + 1)

NotFinite(kind) == [kind |-> kind, chi2 |-> <<0, 1>>, errsq |-> 0]

\* a log_likelihood whose error term is summed over every bin (yerr for
\* yerr[mask] on line 198)
LogLikelihoodValueErrAll(y, yerr, ym, msk) ==
    LET sel == {i \in 1..Len(msk) : msk[i]}
        all == [i \in 1..Len(yerr) |-> TRUE]
    IN  IF Len(y) # Len(msk) \/ Len(yerr) # Len(msk) \/ Len(ym) # Len(msk)
        THEN NotFinite("IndexError")
        ELSE IF \E i \in sel : yerr[i] = 0 /\ y[i] = ym[i]
        THEN NotFinite("nan")
        ELSE IF \E i \in sel : yerr[i] = 0
        THEN IF DotErr(yerr, all, 1) = 0 THEN NotFinite("nan")
             ELSE NotFinite("-inf")
        ELSE IF DotErr(yerr, all, 1) = 0
        THEN NotFinite("inf")
        ELSE [kind |-> "finite", chi2 |-> DotSpec(y, yerr, ym, msk, 1),
              errsq |-> DotErr(yerr, all, 1)]

\* log_likelihood(y, yerr, y_model, mask) on numpy arrays with a boolean
\* mask.  A boolean index of another length raises IndexError.  Division by
\* a zero error gives inf, or nan for 0/0, and a warning; log(0) is -inf.
LogLikelihoodValue(y, yerr, ym, msk) ==
    LET sel == {i \in 1..Len(msk) : msk[i]} IN
    IF Len(y) # Len(msk) \/ Len(yerr) # Len(msk) \/ Len(ym) # Len(msk)
    THEN NotFinite("IndexError")
    ELSE IF \E i \in sel : yerr[i] = 0 /\ y[i] = ym[i]
    THEN NotFinite("nan")
    ELSE IF \E i \in sel : yerr[i] = 0
    THEN IF DotErr(yerr, msk, 1) = 0 THEN NotFinite("nan")
         ELSE NotFinite("-inf")
    ELSE IF DotErr(yerr, msk, 1) = 0
    THEN NotFinite("inf")
    ELSE [kind |-> "finite", chi2 |-> DotSpec(y, yerr, ym, msk, 1),
          errsq |-> DotErr(yerr, msk, 1)]

(***************************************************************************)
(* Walker ensemble (mcmc.py module globals)                                *)
(***************************************************************************)
\* nwalkers, ndim = 128, 4
DefaultWalkers == 128

ndim == 4

\* the centers of the initial_pos drawn at import, in hundredths
DefaultCenters == <<700, -200, 20, -200>>

(***************************************************************************)
(* Inputs                                                                  *)
(***************************************************************************)
WL == <<"W", "L">>

Zem4 == <<"Z", "e", "m", "4">>

Z0019 == <<"Z", "0", "0", "1", "9">>

Z014 == <<"Z", "0", "1", "4">>

Zm4 == <<"Z", "m", "4">>

Age60 == <<"6", ".", "0">>

Age65 == <<"6", ".", "5">>

Age70 == <<"7", ".", "0">>

NoCube == [extnames |-> <<>>, colnames |-> <<>>]

\* grid files: ascending, descending, one with a name that is no metallicity
GridAsc == [extnames |-> <<Zem4, Z0019, Z014>>,
            colnames |-> <<WL, Age60, Age65, Age70>>]

GridDesc == [extnames |-> <<Z014, Z0019, Zem4>>,
             colnames |-> <<WL, Age70, Age65, Age60>>]

GridBadName == [extnames |-> <<Zem4, Zm4>>,
                colnames |-> <<WL, Age60, Age65>>]

CubeFiles == {GridAsc, GridDesc, GridBadName}

\* an ionization table: one row per label of zs, one column per label of
\* cols, Q in hundredths of a dex
IonTable(zs, cols) ==
    [colnames |-> {cols[j] : j \in 1..Len(cols)},
     rows |-> [i \in 1..Len(zs) |->
                 [Z |-> zs[i],
                  Q |-> [c \in {cols[j] : j \in 1..Len(cols)} |->
                           (50 + i) * Cent
                           + (CHOOSE j \in 1..Len(cols) : cols[j] = c)]]]]

IonFull == IonTable(<<Zem4, Z0019, Z014>>, <<Age60, Age65, Age70>>)

IonNoRow == IonTable(<<Zem4, Z014>>, <<Age60, Age65, Age70>>)

IonNoColumn == IonTable(<<Zem4, Z0019, Z014>>, <<Age60, Age70>>)

IonTables == {IonFull, IonNoRow, IonNoColumn}

\* the wavelength array of the observation
ObsArray == <<4990, 5000, 5005, 5010, 5020>>

\* prior_lowbounds / prior_highbounds of mcmc.py, in hundredths
DefaultLow == <<600, -300, 1, -2000>>

DefaultHigh == <<750, -150, 100, 100>>

\* bound lists handed to set_prior_bounds: the defaults, and two with an axis
\* out of order (age; amplitude)
BoundLists == {<<DefaultLow, DefaultHigh>>,
               <<(<<750, -300, 1, -2000>>), (<<600, -150, 100, 100>>)>>,
               <<(<<600, -300, 1, 100>>), (<<750, -150, 100, -2000>>)>>}

\* theta handed to log_posterior: inside the default box (620 snaps down, 675
\* is half way between two ages, -300 is half way between two metallicities),
\* and outside it on the age axis, the metallicity axis, the reddening axis
Thetas == {<<620, -300, 20, -200>>, <<675, -200, 35, -100>>,
           <<500, -300, 20, -200>>, <<675, -400, 100, -200>>}

\* names handed to set_ext_law between runs
RunLaws == {"CCM", "Calzetti", "LMC"}

Walkers == {"w1", "w2"}

(***************************************************************************)
(* Initial state: the modules as imported, no cube loaded; the arguments   *)
(* the driver will hand over (ionization table, wavelengths, windows)      *)
(***************************************************************************)
NotCalled == [called |-> FALSE, theta |-> <<0, 0, 0, 0>>,
              bounds |-> [k \in Axes |-> None], value |-> "none"]

NotApplied == [called |-> FALSE, ebv |-> 0, raised |-> "none",
               spectrum |-> NoSpectrum]

\* no nebular_continuum call made yet
NotScaled == [called |-> FALSE, theta |-> <<0, 0, 0, 0>>, met_key |-> NoKey,
              age_key |-> NoKey, raised |-> "none", spectrum |-> NoSpectrum]

\* no run_sesamme call made yet
NotRun == [answer |-> "", handed |-> FALSE, nwalkers |-> 0, rows |-> 0,
           cols |-> 0]

InitFrom(tables, arrays, lists) ==
    /\ use_ext_law = "CCM"
    /\ ext_out = [arg |-> "", raised |-> "none", printed |-> ""]
    /\ selected = "CCM"
    /\ metal_dict = <<>>
    /\ age_dict = <<>>
    /\ load_out = "none"
    /\ model_cube = NoCube
    /\ ion_table \in tables
    /\ prior_dict = [k \in Axes |-> None]
    /\ bounds_out = "none"
    /\ x \in arrays
    /\ mask = [i \in 1..Len(x) |-> TRUE]
    /\ windows \in lists
    /\ mask_out = "none"
    /\ pc = [w \in Walkers |-> "idle"]
    /\ theta = [w \in Walkers |-> <<0, 0, 0, 0>>]
    /\ add_nebular = [w \in Walkers |-> FALSE]
    /\ y_model = [w \in Walkers |-> NoSpectrum]
    /\ snap = [w \in Walkers |-> NoSnap]
    /\ lp = [w \in Walkers |-> "none"]
    /\ ret = [w \in Walkers |-> "none"]
    /\ gm_calls = [w \in Walkers |-> 0]
    /\ prior_ret = NotCalled
    /\ apply_ret = NotApplied
    /\ neb_ret = NotScaled
    /\ like_ret = <<>>
    /\ nwalkers = DefaultWalkers
    /\ initial_pos = [rows |-> DefaultWalkers, cols |-> ndim,
                      centers |-> DefaultCenters]
    /\ run_out = NotRun

\* a run: any of the ionization tables, the observation, no mask windows
Init == InitFrom(IonTables, {ObsArray}, {<<>>})

\* the public functions on their own: no evaluator call is made
InitDirect == InitFrom({IonFull}, {ObsArray}, {<<>>})

(***************************************************************************)
(* Configuration.  The set_* and load_* functions are called by the driver *)
(* script, which is inside run_mcmc while evaluator calls are in flight,   *)
(* so configuration steps happen between runs.                             *)
(***************************************************************************)
BetweenRuns == \A w \in Walkers : pc[w] = "idle"

\* load_ssp_cube(file): ingests the grid; the cube is returned only when
\* ingestion did not raise
LoadSspCube(cube) ==
    LET r == IngestModelGrid(cube) IN
    /\ BetweenRuns
    /\ metal_dict' = r.metal_dict
    /\ age_dict' = r.age_dict
    /\ load_out' = r.raised
    /\ model_cube' = IF r.raised = "none" THEN cube ELSE model_cube
    /\ UNCHANGED <<use_ext_law, ext_out, selected, ion_table, prior_dict,
                   bounds_out, x, mask, windows, mask_out>>
    /\ UNCHANGED <<evaluator, direct, ensemble>>

\* a set_ext_law that stores the name before it validates it
SetExtLawStoreFirst(ext_curve) ==
    /\ BetweenRuns
    /\ use_ext_law' = ext_curve
    /\ IF ext_curve \notin ExtLaws
       THEN /\ ext_out' = [arg |-> ext_curve, raised |-> "ValueError",
                           printed |-> ""]
            /\ UNCHANGED selected
       ELSE /\ selected' = ext_curve
            /\ ext_out' = [arg |-> ext_curve, raised |-> "none",
                           printed |-> ext_curve]
    /\ UNCHANGED <<metal_dict, age_dict, load_out, model_cube, ion_table,
                   prior_dict, bounds_out, x, mask, windows, mask_out>>
    /\ UNCHANGED <<evaluator, direct, ensemble>>

\* set_ext_law(ext_curve)
SetExtLaw(ext_curve) ==
    /\ BetweenRuns
    /\ IF ext_curve \notin ExtLaws
       THEN /\ ext_out' = [arg |-> ext_curve, raised |-> "ValueError",
                           printed |-> ""]
            /\ UNCHANGED <<use_ext_law, selected>>
       ELSE /\ use_ext_law' = ext_curve
            /\ selected' = ext_curve
            /\ ext_out' = [arg |-> ext_curve, raised |-> "none",
                           printed |-> ext_curve]
    /\ UNCHANGED <<metal_dict, age_dict, load_out, model_cube, ion_table,
                   prior_dict, bounds_out, x, mask, windows, mask_out>>
    /\ UNCHANGED <<evaluator, direct, ensemble>>

\* set_prior_bounds(prior_dict, lows, highs): the four assignments, then the
\* check
SetPriorBounds(lows, highs) ==
    /\ BetweenRuns
    /\ prior_dict' = AssignBounds(lows, highs)
    /\ bounds_out' = CheckPriorBounds(AssignBounds(lows, highs))
    /\ UNCHANGED <<use_ext_law, ext_out, selected, metal_dict, age_dict,
                   load_out, model_cube, ion_table, x, mask, windows, mask_out>>
    /\ UNCHANGED <<evaluator, direct, ensemble>>

(***************************************************************************)
(* log_posterior(theta, x, y, yerr, model_cube, ion_table, mask,           *)
(* add_nebular), one evaluator call per walker, in three steps             *)
(***************************************************************************)
\* the sampler calls log_posterior
Call(w, th, neb) ==
    /\ pc[w] = "idle"
    /\ model_cube # NoCube
    /\ pc' = [pc EXCEPT ![w] = "get_model"]
    /\ theta' = [theta EXCEPT ![w] = th]
    /\ add_nebular' = [add_nebular EXCEPT ![w] = neb]
    /\ y_model' = [y_model EXCEPT ![w] = NoSpectrum]
    /\ snap' = [snap EXCEPT ![w] = NoSnap]
    /\ lp' = [lp EXCEPT ![w] = "none"]
    /\ ret' = [ret EXCEPT ![w] = "none"]
    /\ gm_calls' = [gm_calls EXCEPT ![w] = 0]
    /\ UNCHANGED <<context, config_out, direct, ensemble>>

\* a get_model step that writes the snapped age back into theta
StepGetModelInPlace(w) ==
    LET r == GetModel(theta[w], x, model_cube, ion_table, add_nebular[w],
                      metal_dict, age_dict, use_ext_law)
        loc == GetModelLocals(theta[w], metal_dict, age_dict) IN
    /\ pc[w] = "get_model"
    /\ gm_calls' = [gm_calls EXCEPT ![w] = @ + 1]
    /\ y_model' = [y_model EXCEPT ![w] = r.spectrum]
    /\ snap' = [snap EXCEPT ![w] = loc]
    /\ theta' = [theta EXCEPT ![w] = [@ EXCEPT ![1] = loc.age]]
    /\ IF r.raised # "none"
       THEN /\ ret' = [ret EXCEPT ![w] = r.raised]
            /\ pc' = [pc EXCEPT ![w] = "done"]
       ELSE /\ pc' = [pc EXCEPT ![w] = "log_prior"]
            /\ UNCHANGED ret
    /\ UNCHANGED <<add_nebular, lp>>
    /\ UNCHANGED <<context, config_out, direct, ensemble>>

\* y_model = models.get_model(theta, x, model_cube, ion_table, add_nebular)
StepGetModel(w) ==
    LET r == GetModel(theta[w], x, model_cube, ion_table, add_nebular[w],
                      metal_dict, age_dict, use_ext_law) IN
    /\ pc[w] = "get_model"
    /\ gm_calls' = [gm_calls EXCEPT ![w] = @ + 1]
    /\ y_model' = [y_model EXCEPT ![w] = r.spectrum]
    /\ snap' = [snap EXCEPT ![w] = GetModelLocals(theta[w], metal_dict, age_dict)]
    /\ IF r.raised # "none"
       THEN /\ ret' = [ret EXCEPT ![w] = r.raised]
            /\ pc' = [pc EXCEPT ![w] = "done"]
       ELSE /\ pc' = [pc EXCEPT ![w] = "log_prior"]
            /\ UNCHANGED ret
    /\ UNCHANGED <<theta, add_nebular, lp>>
    /\ UNCHANGED <<context, config_out, direct, ensemble>>

\* lp = log_prior(theta); if not np.isfinite(lp): return -np.inf
StepLogPrior(w) ==
    LET v == LogPrior(theta[w], prior_dict) IN
    /\ pc[w] = "log_prior"
    /\ lp' = [lp EXCEPT ![w] = v]
    /\ IF v = "0.0"
       THEN /\ pc' = [pc EXCEPT ![w] = "log_likelihood"]
            /\ UNCHANGED ret
       ELSE /\ ret' = [ret EXCEPT ![w] = v]
            /\ pc' = [pc EXCEPT ![w] = "done"]
    /\ UNCHANGED <<theta, add_nebular, y_model, snap, gm_calls>>
    /\ UNCHANGED <<context, config_out, direct, ensemble>>

\* ll = log_likelihood(y, yerr, y_model, mask); return lp + ll
StepLogLikelihood(w) ==
    /\ pc[w] = "log_likelihood"
    /\ ret' = [ret EXCEPT ![w] = LogLikelihood(y_model[w], mask)]
    /\ pc' = [pc EXCEPT ![w] = "done"]
    /\ UNCHANGED <<theta, add_nebular, y_model, snap, lp, gm_calls>>
    /\ UNCHANGED <<context, config_out, direct, ensemble>>

\* the sampler takes the value; the walker is free for its next proposal
Return(w) ==
    /\ pc[w] = "done"
    /\ pc' = [pc EXCEPT ![w] = "idle"]
    /\ theta' = [theta EXCEPT ![w] = <<0, 0, 0, 0>>]
    /\ add_nebular' = [add_nebular EXCEPT ![w] = FALSE]
    /\ y_model' = [y_model EXCEPT ![w] = NoSpectrum]
    /\ snap' = [snap EXCEPT ![w] = NoSnap]
    /\ lp' = [lp EXCEPT ![w] = "none"]
    /\ ret' = [ret EXCEPT ![w] = "none"]
    /\ gm_calls' = [gm_calls EXCEPT ![w] = 0]
    /\ UNCHANGED <<context, config_out, direct, ensemble>>

Next ==
    \/ \E cube \in CubeFiles : LoadSspCube(cube)
    \/ \E name \in RunLaws : SetExtLaw(name)
    \/ \E b \in BoundLists : SetPriorBounds(b[1], b[2])
    \/ \E w \in Walkers, th \in Thetas, neb \in BOOLEAN : Call(w, th, neb)
    \/ \E w \in Walkers : StepGetModel(w)
    \/ \E w \in Walkers : StepLogPrior(w)
    \/ \E w \in Walkers : StepLogLikelihood(w)
    \/ \E w \in Walkers : Return(w)

Spec == Init /\ [][Next]_vars

(***************************************************************************)
(* The public functions called on their own (sesamme/__init__.py exports   *)
(* log_prior, apply_ext_law, set_ext_law, get_mask, set_prior_bounds)      *)
(***************************************************************************)
\* every name tried on set_ext_law: the eight curves and two that are none
AllNames == ExtLaws \cup {"NotARealCurve", "ccm"}

\* theta handed to log_prior on its own: around every default bound
PriorThetas == {599, 600, 750, 751} \X {-301, -300, -150, -149}
               \X {1, 50, 100} \X {-2000, 0, 100}

\* bound lists for log_prior on its own: BoundLists and a narrower box whose
\* age interval is the single point 6.0
NarrowLow == <<600, -300, 50, -2000>>

NarrowHigh == <<600, -150, 100, 0>>

PriorBoundLists == BoundLists \cup {<<NarrowLow, NarrowHigh>>}

\* log_prior(theta), called by the driver
LogPriorCall(th) ==
    /\ BetweenRuns
    /\ prior_ret' = [called |-> TRUE, theta |-> th, bounds |-> prior_dict,
                     value |-> LogPrior(th, prior_dict)]
    /\ UNCHANGED <<context, config_out, evaluator, ensemble, apply_ret, neb_ret,
                   like_ret>>

\* apply_ext_law(x, ebv, y_model), called by the driver on a stellar spectrum
ApplyExtLawCall(ebv) ==
    LET r == ApplyExtLaw(use_ext_law, x, ebv,
                         [len |-> Len(x), ops |-> <<Op("ssp")>>]) IN
    /\ BetweenRuns
    /\ apply_ret' = [called |-> TRUE, ebv |-> ebv, raised |-> r.raised,
                     spectrum |-> r.spectrum]
    /\ UNCHANGED <<context, config_out, evaluator, ensemble, prior_ret, neb_ret,
                   like_ret>>

\* models.use_ext_law = name: the module global rebound without set_ext_law
AssignUseExtLaw(name) ==
    /\ BetweenRuns
    /\ use_ext_law' = name
    /\ selected' = ""
    /\ UNCHANGED <<ext_out, metal_dict, age_dict, load_out, model_cube,
                   ion_table, prior_dict, bounds_out, x, mask, windows,
                   mask_out>>
    /\ UNCHANGED <<evaluator, direct, ensemble>>

\* mask = get_mask(windows, x)
GetMaskCall ==
    LET r == GetMask(windows, x) IN
    /\ BetweenRuns
    /\ mask_out = "none"
    /\ mask_out' = IF r.raised = "none" THEN "returned" ELSE r.raised
    /\ mask' = IF r.raised = "none" THEN r.mask ELSE mask
    /\ UNCHANGED <<use_ext_law, ext_out, selected, metal_dict, age_dict,
                   load_out, model_cube, ion_table, prior_dict, bounds_out, x,
                   windows>>
    /\ UNCHANGED <<evaluator, direct, ensemble>>

\* log_prior on its own, between set_prior_bounds calls
NextPrior ==
    \/ \E b \in PriorBoundLists : SetPriorBounds(b[1], b[2])
    \/ \E th \in PriorThetas : LogPriorCall(th)

SpecPrior == InitDirect /\ [][NextPrior]_vars

\* set_ext_law and apply_ext_law on their own
NextSelect ==
    \/ \E name \in AllNames : SetExtLaw(name)
    \/ \E ebv \in {0, 20} : ApplyExtLawCall(ebv)

SpecSelect == InitDirect /\ [][NextSelect]_vars

\* the same, with the module global also rebound directly
NextExt ==
    \/ \E name \in AllNames : SetExtLaw(name)
    \/ \E name \in AllNames : AssignUseExtLaw(name)
    \/ \E ebv \in {0, 20} : ApplyExtLawCall(ebv)

SpecExt == InitDirect /\ [][NextExt]_vars

\* get_mask on its own: wavelength arrays of up to MaxBins bins and window
\* lists of up to MaxWindows windows
MaxBins == 3

MaxWindows == 2

Wave == {4990, 5000, 5010}

Edges == {4995, 5000, 5010}

SeqsUpTo(S, n) == UNION {[1..k -> S] : k \in 0..n}

MaskArrays == SeqsUpTo(Wave, MaxBins) \cup {ObsArray}

WindowLists == SeqsUpTo(Edges \X Edges, MaxWindows)

InitMask == InitFrom({IonFull}, MaskArrays, WindowLists)

SpecMask == InitMask /\ [][GetMaskCall]_vars

\* nebular_continuum(x, theta, ion_table), called by the driver
NebularContinuumCall(th) ==
    LET r == NebularContinuum(x, th, ion_table, metal_dict, age_dict)
        loc == GetModelLocals(th, metal_dict, age_dict) IN
    /\ BetweenRuns
    /\ neb_ret' = [called |-> TRUE, theta |-> th, met_key |-> loc.met_key,
                   age_key |-> loc.age_key, raised |-> r.raised,
                   spectrum |-> r.spectrum]
    /\ UNCHANGED <<context, config_out, evaluator, ensemble, prior_ret,
                   apply_ret, like_ret>>

\* nebular_continuum on its own, on a loaded grid: any of the ionization
\* tables, a one-bin wavelength array or the observation's
OneBin == <<5000>>

InitNeb == InitFrom(IonTables, {OneBin, ObsArray}, {<<>>})

NextNeb ==
    \/ \E cube \in {GridAsc, GridDesc} : LoadSspCube(cube)
    \/ \E th \in Thetas : NebularContinuumCall(th)

SpecNeb == InitNeb /\ [][NextNeb]_vars

\* log_likelihood(y, yerr, y_model, mask), called by the driver
LogLikelihoodCall(y, yerr, ym, msk) ==
    /\ BetweenRuns
    /\ like_ret' = Append(like_ret,
                          [y |-> y, yerr |-> yerr, y_model |-> ym, mask |-> msk,
                           value |-> LogLikelihoodValue(y, yerr, ym, msk)])
    /\ UNCHANGED <<context, config_out, evaluator, ensemble, prior_ret,
                   apply_ret, neb_ret>>

\* log_likelihood on its own, called twice: arrays of up to LikeBins bins,
\* then the same arrays with one bin replaced (flux, error, model and mask)
LikeBins == 2

\* one bin: flux, model flux, error, mask
LikeBinValues == [flux : {<<0, 0>>, <<2, 0>>, <<0, 1>>}, yerr : {0, 1, 2},
                  mask : BOOLEAN]

FirstLikelihoodCall(bins) ==
    /\ like_ret = <<>>
    /\ LogLikelihoodCall([i \in 1..Len(bins) |-> bins[i].flux[1]],
                         [i \in 1..Len(bins) |-> bins[i].yerr],
                         [i \in 1..Len(bins) |-> bins[i].flux[2]],
                         [i \in 1..Len(bins) |-> bins[i].mask])

SecondLikelihoodCall(i, b) ==
    /\ Len(like_ret) = 1
    /\ i \in 1..Len(like_ret[1].mask)
    /\ LogLikelihoodCall([like_ret[1].y EXCEPT ![i] = b.flux[1]],
                         [like_ret[1].yerr EXCEPT ![i] = b.yerr],
                         [like_ret[1].y_model EXCEPT ![i] = b.flux[2]],
                         [like_ret[1].mask EXCEPT ![i] = b.mask])

NextLike ==
    \/ /\ like_ret = <<>>
       /\ \E bins \in SeqsUpTo(LikeBinValues, LikeBins) :
             FirstLikelihoodCall(bins)
    \/ /\ like_ret # <<>>
       /\ \E i \in 1..LikeBins, b \in LikeBinValues :
             SecondLikelihoodCall(i, b)

SpecLike == InitDirect /\ [][NextLike]_vars

\* set_walker_size(m): rebinds nwalkers and nothing else
SetWalkerSize(m) ==
    /\ BetweenRuns
    /\ nwalkers' = m
    /\ UNCHANGED <<context, config_out, evaluator, direct, initial_pos,
                   run_out>>

\* set_initial_positions(centers): a fresh draw of nwalkers rows and ndim
\* columns around the first four entries of centers (the spread of the draw
\* is not modelled)
SetInitialPositions(centers) ==
    /\ BetweenRuns
    /\ initial_pos' = [rows |-> nwalkers, cols |-> ndim,
                       centers |-> SubSeq(centers, 1, 4)]
    /\ UNCHANGED <<context, config_out, evaluator, direct, nwalkers, run_out>>

\* run_sesamme(...): on a yes the sampler is built for nwalkers walkers and
\* ndim dimensions and run_mcmc is handed initial_pos as it stands
RunSesamme(yesno) ==
    /\ BetweenRuns
    /\ run_out' = IF yesno \in {"y", "Y", "yes", "YES"}
                  THEN [answer |-> yesno, handed |-> TRUE,
                        nwalkers |-> nwalkers, rows |-> initial_pos.rows,
                        cols |-> initial_pos.cols]
                  ELSE [NotRun EXCEPT !.answer = yesno]
    /\ UNCHANGED <<context, config_out, evaluator, direct, nwalkers,
                   initial_pos>>

\* the ensemble settings and the start of a run, on their own
WalkerSizes == {8, 32, 128}

CenterLists == {DefaultCenters, <<650, -250, 10, -300>>,
                <<650, -250, 10, -300, 0>>, <<720, -170, 50, 0>>}

Answers == {"y", "YES", "n", "maybe"}

NextWalkers ==
    \/ \E m \in WalkerSizes : SetWalkerSize(m)
    \/ \E centers \in CenterLists : SetInitialPositions(centers)
    \/ \E yesno \in Answers : RunSesamme(yesno)

SpecWalkers == InitDirect /\ [][NextWalkers]_vars

\* load_ssp_cube on its own: grids of up to MaxExtensions metallicity
\* extensions, named from IngestNames
MaxExtensions == 2

Xem4 == <<"X", "e", "m", "4">>

aZ014 == <<"a", "Z", "0", "1", "4">>

Z5e1 == <<"Z", "5", "e", "1">>

ZemOnly == <<"Z", "e", "m">>

IngestNames == {Zem4, Z014, Xem4, aZ014, Z5e1, ZemOnly}

IngestColumns == {<<WL, Age60, Age65>>, <<WL, Age70>>}

IngestCubes == {[extnames |-> e, colnames |-> c] :
                    e \in SeqsUpTo(IngestNames, MaxExtensions),
                    c \in IngestColumns}

SpecIngest == InitDirect /\ [][\E cube \in IngestCubes : LoadSspCube(cube)]_vars

(***************************************************************************)
(* Properties                                                              *)
(***************************************************************************)
InFlight == {"get_model", "log_prior", "log_likelihood"}

\* lo <= hi on every axis of stored bounds
Consistent(bounds) ==
    \A k \in Axes : bounds[k] # None /\ bounds[k][1] <= bounds[k][2]

\* some axis of th lies strictly outside its interval
OutsideBox(th, bounds) ==
    \E i \in 1..Len(AxisOrder) :
        \/ th[i] < bounds[AxisOrder[i]][1]
        \/ th[i] > bounds[AxisOrder[i]][2]

\* C1: a log_posterior call whose theta has log_prior = -inf returns -inf and
\* has made no get_model invocation.
C1_NoModelForRejectedTheta ==
    \A w \in Walkers :
        (pc[w] = "done" /\ LogPrior(theta[w], prior_dict) = "-inf")
            => (ret[w] = "-inf" /\ gm_calls[w] = 0)

\* C2: with consistent stored bounds, a log_posterior call with theta outside
\* the bounds ends by returning -inf, never by raising, whatever the grid and
\* the ionization table hold.
C2_RejectionNeverRaises ==
    \A w \in Walkers :
        (pc[w] = "done" /\ Consistent(prior_dict)
                        /\ OutsideBox(theta[w], prior_dict))
            => ret[w] = "-inf"

\* C4: in every reachable state the stored bounds have lo <= hi on each axis
\* (bounds not yet set are no bounds).
C4_StoredBoundsOrdered ==
    \A k \in Axes :
        prior_dict[k] # None => prior_dict[k][1] <= prior_dict[k][2]

\* C5: a step of an evaluator call in flight, whatever the other calls are
\* doing, leaves the lookup tables, the active extinction law, the stored
\* bounds, the mask and every theta argument as they were.
C5_EvaluatorReadOnly ==
    [][(\E w \in Walkers : pc[w] \in InFlight /\ pc'[w] # pc[w])
          => /\ age_dict' = age_dict
             /\ metal_dict' = metal_dict
             /\ use_ext_law' = use_ext_law
             /\ prior_dict' = prior_dict
             /\ mask' = mask
             /\ \A v \in Walkers : pc[v] \in InFlight => theta'[v] = theta[v]]_vars

\* two evaluator calls are in flight at different positions, one of them
\* past get_model
C5_Witness ==
    /\ pc["w1"] = "log_likelihood"
    /\ pc["w2"] = "log_prior"
    /\ theta["w1"] # theta["w2"]

\* entry i of d is the first, in insertion order, among those nearest to t
FirstNearest(d, t, i) ==
    /\ \A j \in 1..Len(d) : Abs(t - d[j][2]) >= Abs(t - d[i][2])
    /\ \A j \in 1..(i - 1) : Abs(t - d[j][2]) > Abs(t - d[i][2])

IsFirstNearest(d, t, key, val) ==
    \E i \in 1..Len(d) : d[i] = <<key, val>> /\ FirstNearest(d, t, i)

\* C6: the pair _nearest_age returns minimises |logt - value| over the age
\* table, the pair _nearest_metallicity returns minimises |10^logZ - value|
\* over the metallicity table, and of several minimal entries the first
\* ingested is returned; with ages 6.0, 6.5, 7.0 ingested in that order,
\* 6.2 gives 6.0 and 6.75 gives 6.5.
C6_NearestIsFirstMinimum ==
    \A w \in Walkers :
        /\ snap[w].age_key # NoKey
              => IsFirstNearest(age_dict, theta[w][1],
                                snap[w].age_key, snap[w].age)
        /\ snap[w].met_key # NoKey
              => IsFirstNearest(metal_dict, LinearZ(theta[w][2]),
                                snap[w].met_key, snap[w].met)
        /\ (snap[w].age_key # NoKey
            /\ age_dict = << <<Age60, 600>>, <<Age65, 650>>, <<Age70, 700>> >>)
              => /\ theta[w][1] = 620 => snap[w].age = 600
                 /\ theta[w][1] = 675 => snap[w].age = 650

\* a call snapped an age that lies half way between two grid ages, and the
\* later of the two in value was the first ingested
C6_Witness ==
    \E w \in Walkers :
        /\ theta[w][1] = 675
        /\ snap[w].age = 700
        /\ snap[w].met_key # NoKey

C3_PriorBox ==
    (prior_ret.called /\ Consistent(prior_ret.bounds)) =>
        LET b == prior_ret.bounds
            th == prior_ret.theta
            strictly(i) == b[AxisOrder[i]][1] < th[i] /\ th[i] < b[AxisOrder[i]][2]
            onbound(i) == th[i] = b[AxisOrder[i]][1] \/ th[i] = b[AxisOrder[i]][2]
            inside == /\ b["age"][1] <= th[1] /\ th[1] <= b["age"][2]
                      /\ b["met"][1] <= th[2] /\ th[2] <= b["met"][2]
                      /\ b["ebv"][1] < th[3] /\ th[3] < b["ebv"][2]
                      /\ b["amp"][1] < th[4] /\ th[4] < b["amp"][2]
        IN  /\ prior_ret.value = (IF inside THEN "0.0" ELSE "-inf")
            /\ (onbound(3) \/ onbound(4)) => prior_ret.value = "-inf"
            /\ (onbound(1) /\ strictly(2) /\ strictly(3) /\ strictly(4))
                  => prior_ret.value = "0.0"
            /\ (strictly(1) /\ onbound(2) /\ strictly(3) /\ strictly(4))
                  => prior_ret.value = "0.0"

\* log_prior returned 0 for a theta whose logt and logZ both sit on a bound
C3_Witness ==
    /\ prior_ret.called
    /\ Consistent(prior_ret.bounds)
    /\ prior_ret.theta[1] = prior_ret.bounds["age"][2]
    /\ prior_ret.theta[2] = prior_ret.bounds["met"][1]
    /\ prior_ret.value = "0.0"

\* the value of arr nearest to t, the first such on a tie
NearestValue(arr, t) ==
    arr[CHOOSE i \in 1..Len(arr) :
            /\ \A j \in 1..Len(arr) : Abs(arr[j] - t) >= Abs(arr[i] - t)
            /\ \A j \in 1..(i - 1) : Abs(arr[j] - t) > Abs(arr[i] - t)]

ClaimedLaws == {"CCM", "Fitzpatrick99", "ODonnell", "FitzMassa07", "Gordon23",
                "Calzetti", "SMC", "LMC"}

ClaimedCurve(name) ==
    CASE name = "CCM"           -> "extinction.ccm89"
      [] name = "Fitzpatrick99" -> "extinction.fitzpatrick99"
      [] name = "ODonnell"      -> "extinction.odonnell94"
      [] name = "FitzMassa07"   -> "extinction.fm07"
      [] name = "Gordon23"      -> "dust_extinction.G23"
      [] name = "Calzetti"      -> "extinction.calzetti00"
      [] name = "SMC"           -> "dust_extinction.G03_SMCBar"
      [] name = "LMC"           -> "dust_extinction.G03_LMCAvg"

\* C9: apply_ext_law uses the curve named by the most recent successful
\* set_ext_law (CCM before any), for each of the eight names; and under an
\* active selection that is none of the eight it raises ValueError, the error
\* set_ext_law raises for a name it does not know, and returns no spectrum.
C9_ApplyFollowsSelection ==
    /\ []((ext_out.arg # "" /\ ext_out.arg \notin ClaimedLaws)
             => ext_out.raised = "ValueError")
    /\ [][apply_ret' # apply_ret =>
            /\ selected # "" =>
                 /\ apply_ret'.raised = "none"
                 /\ apply_ret'.spectrum.ops[Len(apply_ret'.spectrum.ops)].op = "ext"
                 /\ apply_ret'.spectrum.ops[Len(apply_ret'.spectrum.ops)].law
                       = ClaimedCurve(selected)
            /\ use_ext_law \notin ClaimedLaws =>
                 /\ apply_ret'.raised = "ValueError"
                 /\ apply_ret'.spectrum = NoSpectrum]_vars

\* apply_ext_law raised under a selection that is none of the eight names,
\* and the last set_ext_law call had raised too
C9_Witness ==
    /\ apply_ret.called /\ apply_ret.raised = "ValueError"
    /\ use_ext_law \notin ClaimedLaws
    /\ ext_out.raised = "ValueError"

\* C10: set_ext_law(name) with one of the eight names makes it the active
\* curve and prints the confirmation; with any other name it raises
\* ValueError, prints nothing and leaves the active curve as it was; so the
\* active curve is one of the eight in every state set_ext_law can reach.
C10_SetExtLawValidates ==
    /\ [](use_ext_law \in ClaimedLaws)
    /\ [][ext_out' # ext_out =>
            IF ext_out'.arg \in ClaimedLaws
            THEN /\ use_ext_law' = ext_out'.arg
                 /\ ext_out'.printed = ext_out'.arg
                 /\ ext_out'.raised = "none"
            ELSE /\ ext_out'.raised = "ValueError"
                 /\ ext_out'.printed = ""
                 /\ use_ext_law' = use_ext_law]_vars
    /\ [][use_ext_law' # use_ext_law =>
            /\ ext_out'.raised = "none"
            /\ ext_out'.arg = use_ext_law']_vars

\* a rejected name left an earlier selection, other than the initial one,
\* active
C10_Witness ==
    /\ ext_out.arg = "NotARealCurve"
    /\ ext_out.raised = "ValueError"
    /\ use_ext_law = "Gordon23"

\* the two forms of an extension name: Z and digits, Zem and digits
IsZDigits(key) ==
    Len(key) >= 2 /\ key[1] = "Z" /\ AllDigits(Tail(key))

IsZemDigits(key) ==
    /\ Len(key) >= 4
    /\ SubSeq(key, 1, 3) = <<"Z", "e", "m">>
    /\ AllDigits(SubSeq(key, 4, Len(key)))

\* the value each form stands for, in units of 10^-MetDigits: 0.<digits>,
\* 10^-<d>
FormValue(key) ==
    IF IsZemDigits(key)
    THEN Pow10(MetDigits - DigitsToInt(SubSeq(key, 4, Len(key))))
    ELSE DigitsToInt(Tail(key)) * Pow10(MetDigits - Len(Tail(key)))

\* C11: every extension name grid ingestion has turned into a metallicity is
\* of the form Z<digits>, with value 0.<digits>, or Zem<digits>, with value
\* 10^-<digits>; a grid with a name of any other form (Xem4, aZ014) makes
\* ingestion fail and leaves no metallicity behind.
C11_OnlyTwoForms ==
    \A i \in 1..Len(metal_dict) :
        /\ IsZDigits(metal_dict[i][1]) \/ IsZemDigits(metal_dict[i][1])
        /\ metal_dict[i][2] = FormValue(metal_dict[i][1])

\* the exceptions that are lookup errors (Python's LookupError)
LookupErrors == {"KeyError", "IndexError"}

\* the table has no Q for the pair: no such column, or no row with that label
EntryAbsent(table, met_key, age_key) ==
    \/ age_key \notin table.colnames
    \/ MatchingRows(table, met_key) = {}

\* C12: a nebular_continuum call whose snapped (metallicity label, age label)
\* pair has no entry in the ionization table, the age column being absent or
\* no row carrying the metallicity label, ends with a lookup error; it
\* returns no spectrum.
C12_MissingEntryIsLookupError ==
    (/\ neb_ret.called
     /\ neb_ret.age_key # NoKey
     /\ EntryAbsent(ion_table, neb_ret.met_key, neb_ret.age_key))
        => neb_ret.raised \in LookupErrors

\* some axis of stored bounds has lo > hi
Inverted(bounds) ==
    \E k \in Axes : bounds[k] # None /\ bounds[k][1] > bounds[k][2]

\* C13: a log_prior call made while some axis of the stored bounds has
\* lo > hi raises ValueError, whatever theta is and whatever earlier calls
\* returned; it returns neither 0 nor -inf.
C13_InvertedBoundsRaiseOnEveryCall ==
    /\ []((prior_ret.called /\ Inverted(prior_ret.bounds))
             => prior_ret.value = "ValueError")
    /\ [][(Inverted(prior_dict) /\ prior_dict' = prior_dict
            /\ prior_ret' # prior_ret)
              => /\ prior_ret'.bounds = prior_dict
                 /\ prior_ret'.value = "ValueError"]_vars

\* log_prior raised ValueError against bounds whose only inverted axis is the
\* last one checked, for a theta within the other three intervals; the
\* set_prior_bounds call that stored the bounds had raised as well
C13_Witness ==
    /\ prior_ret.called
    /\ prior_ret.value = "ValueError"
    /\ prior_ret.bounds = prior_dict
    /\ prior_dict["amp"][1] > prior_dict["amp"][2]
    /\ \A k \in Axes \ {"amp"} : prior_dict[k][1] <= prior_dict[k][2]
    /\ prior_ret.theta = <<600, -300, 50, 0>>
    /\ bounds_out = "ValueError"

\* the rearrangements of a list
Rearranged(list) ==
    {[k \in 1..Len(list) |-> list[p[k]]] :
        p \in {q \in [1..Len(list) -> 1..Len(list)] :
                  \A a, b \in 1..Len(list) : q[a] = q[b] => a = b}}

\* C14: the mask get_mask(windows, x) returned is the mask it returns for
\* every rearrangement of windows, and its bin i is true exactly when bin i is
\* true in each of the masks get_mask([w], x) of the windows taken alone;
\* where the call raised, it raises for every rearrangement too.
C14_MaskOrderIndependent ==
    /\ mask_out = "returned" =>
          /\ \A list \in Rearranged(windows) :
                GetMask(list, x) = [raised |-> "none", mask |-> mask]
          /\ \A i \in 1..Len(x) :
                mask[i] = \A k \in 1..Len(windows) :
                             GetMask(<<windows[k]>>, x).mask[i]
    /\ mask_out \notin {"none", "returned"} =>
          \A list \in Rearranged(windows) : GetMask(list, x).raised = mask_out

\* a mask came back from two windows that clear different bins: neither
\* window alone gives it, and the later window does not cover the earlier
C14_Witness ==
    /\ mask_out = "returned"
    /\ x = <<4990, 5000, 5010>>
    /\ windows = << <<5010, 5010>>, <<4995, 4995>> >>
    /\ mask = <<FALSE, TRUE, FALSE>>
    /\ GetMask(<<windows[1]>>, x).mask = <<TRUE, TRUE, FALSE>>
    /\ GetMask(<<windows[2]>>, x).mask = <<FALSE, TRUE, TRUE>>

\* two calls agree on every bin their common mask keeps
AgreeOnKept(a, b) ==
    /\ a.mask = b.mask
    /\ \A i \in 1..Len(a.mask) :
          a.mask[i] => /\ a.y[i] = b.y[i]
                       /\ a.yerr[i] = b.yerr[i]
                       /\ a.y_model[i] = b.y_model[i]

\* C15: two log_likelihood calls with the same mask whose y, yerr and y_model
\* agree on every bin where the mask is true return the same value, whatever
\* the bins where the mask is false hold; so do two calls with the same
\* arguments.
C15_LikelihoodSeesKeptBinsOnly ==
    Len(like_ret) = 2 =>
        (AgreeOnKept(like_ret[1], like_ret[2])
            => like_ret[1].value = like_ret[2].value)

\* two calls returned the same finite value, with a fractional chi2, though
\* flux, model and error of a bin the mask drops all differ, the error of
\* that bin being zero in one of the calls
C15_Witness ==
    /\ Len(like_ret) = 2
    /\ AgreeOnKept(like_ret[1], like_ret[2])
    /\ like_ret[1].value.kind = "finite"
    /\ like_ret[1].value.chi2 = <<1, 4>>
    /\ like_ret[1].value = like_ret[2].value
    /\ \E i \in 1..Len(like_ret[1].mask) :
          /\ ~like_ret[1].mask[i]
          /\ like_ret[1].y[i] # like_ret[2].y[i]
          /\ like_ret[1].y_model[i] # like_ret[2].y_model[i]
          /\ like_ret[1].yerr[i] # 0 /\ like_ret[2].yerr[i] = 0

\* C16: whatever set_walker_size and set_initial_positions calls came
\* before, in whatever order, the initial positions run_sesamme hands to the
\* sampler have as many rows as the sampler has walkers, and four columns.
C16_HandedPositionsMatchEnsemble ==
    run_out.handed => (run_out.rows = run_out.nwalkers /\ run_out.cols = 4)

\* C17: a log_prior call made before any set_prior_bounds call, the stored
\* bounds being as the import left them, returns what log_prior returns
\* against the default bounds (low [6.0, -3.0, 0.01, -20.], high
\* [7.5, -1.5, 1.0, 1.0]): 0 or -inf, and it does not raise.
C17_DefaultBoundsBeforeSetting ==
    (prior_ret.called /\ prior_ret.bounds = NotCalled.bounds) =>
        /\ prior_ret.value \in {"0.0", "-inf"}
        /\ prior_ret.value = LogPrior(prior_ret.theta,
                                      AssignBounds(DefaultLow, DefaultHigh))

====
